---- MODULE Spec2Model ----
(***************************************************************************)
(* A model of dotfiles.core (src/dotfiles/core.py): the Dotfile state      *)
(* machine (status computation, sync, add, remove) and the Dotfiles        *)
(* collection (_load, _fqpn, sync, add, remove, move) over a POSIX         *)
(* filesystem with directories, regular files and symbolic links.          *)
(*                                                                         *)
(* A file name is a sequence of one-character strings ("_a" is             *)
(* <<"_","a">>), so that prefix stripping, startswith and fnmatch are      *)
(* computed on characters.  A path is its text cut at the separators, a    *)
(* non-empty sequence of names: "/r/_a" is <<EMPTY, R, EA>>, ".a/" is      *)
(* <<DA, EMPTY>>, "/" is <<EMPTY, EMPTY>> and the empty string is          *)
(* <<EMPTY>>; so a path is absolute when it has a separator and its first  *)
(* name is empty.  A place is a sequence of non-empty names from the root, *)
(* << >> being the root: the filesystem fs maps every place where          *)
(* something exists to its node, the root always exists and is a           *)
(* directory.  A relative path is looked up from the working directory,    *)
(* taken to be the root.                                                   *)
(***************************************************************************)
EXTENDS Integers, Sequences, FiniteSets, TLC

VARIABLES fs,          \* the filesystem: place -> node
          repository,  \* Dotfiles.repository
          externals,   \* Dotfiles.externals, as a sequence of <<key, path>>
          dotfiles,    \* Dotfiles.dotfiles: sequence of Dotfile objects
          last,        \* record of the last operation performed
          steps        \* number of operations performed so far

vars == <<fs, repository, externals, dotfiles, last, steps>>

----------------------------------------------------------------------------
(* Bounds *)

MaxSteps == 1

----------------------------------------------------------------------------
(* File names and paths of the modelled universe *)

H  == <<"h">>
R  == <<"r">>
T  == <<"t">>
X  == <<"x">>
F  == <<"f">>
CH == <<"c">>
DA == <<".", "a">>
DB == <<".", "b">>
NA == <<"a">>
EA == <<"_", "a">>
EB == <<"_", "b">>
EX == <<"x", "a">>
EI == <<"_", "a", "~">>
EU == <<"_">>
EMPTY  == << >>
DOT    == <<".">>
DOTDOT == <<".", ".">>

homedir == <<EMPTY, H>>
prefix  == <<"_">>
ignore  == << <<"*", "~">> >>
\* the working directory of the process, a place
cwd     == << >>

----------------------------------------------------------------------------
(* Filesystem nodes *)

FileNode(c) == [kind |-> "file", content |-> c,  link |-> << >>]
DirNode     == [kind |-> "dir",  content |-> "", link |-> << >>]
LinkNode(t) == [kind |-> "link", content |-> "", link |-> t]

IsPrefix(p, q) == Len(p) <= Len(q) /\ SubSeq(q, 1, Len(p)) = p
Front(p) == SubSeq(p, 1, Len(p) - 1)
Last(p)  == p[Len(p)]

Present(f, p) == p \in DOMAIN f
KindAt(f, p)  == IF p = << >> THEN "dir"
                 ELSE IF Present(f, p) THEN f[p].kind ELSE "none"

----------------------------------------------------------------------------
(* Path texts: posixpath *)

NOPATH == <<EMPTY>>
ROOT   == <<EMPTY, EMPTY>>

\* str.startswith(sep), str.endswith(sep)
IsAbs(p)   == Len(p) >= 2 /\ Head(p) = EMPTY
Slashed(p) == Len(p) >= 2 /\ Last(p) = EMPTY
\* a text of separators only
AllSep(p)  == \A k \in 1..Len(p) : p[k] = EMPTY

\* the names of a path, its empty components left out
Clean(p) == SelectSeq(p, LAMBDA n : n # EMPTY)

\* the text of a place
Text(place) == IF place = << >> THEN ROOT ELSE <<EMPTY>> \o place

\* os.path.join(a, b)
join(a, b) ==
    IF IsAbs(b) THEN b
    ELSE IF a = NOPATH \/ Slashed(a) THEN Front(a) \o b
    ELSE a \o b

\* str.rstrip(SEPARATORS)
RECURSIVE Rstrip(_)
Rstrip(p) == IF Slashed(p) THEN Rstrip(Front(p)) ELSE p

\* os.path.basename, a name
pathbasename(p) == Last(p)

\* os.path.split: the head as a text, the tail as a name
SplitHead(p) == IF Len(p) = 1 THEN NOPATH ELSE Append(Front(p), EMPTY)
split(p) ==
    [head |-> IF SplitHead(p) # NOPATH /\ ~AllSep(SplitHead(p))
              THEN Rstrip(SplitHead(p)) ELSE SplitHead(p),
     tail |-> Last(p)]

\* os.path.normpath: empty names and "." dropped, ".." taking back the name
\* before it, exactly two leading separators kept
RECURSIVE NormComps(_, _, _)
NormComps(comps, acc, abs) ==
    IF comps = << >> THEN acc
    ELSE IF Head(comps) = EMPTY \/ Head(comps) = DOT
         THEN NormComps(Tail(comps), acc, abs)
    ELSE IF Head(comps) # DOTDOT \/ (~abs /\ acc = << >>)
            \/ (acc # << >> /\ Last(acc) = DOTDOT)
         THEN NormComps(Tail(comps), Append(acc, Head(comps)), abs)
    ELSE IF acc # << >> THEN NormComps(Tail(comps), Front(acc), abs)
    ELSE NormComps(Tail(comps), acc, abs)
Slashes(p) ==
    IF ~IsAbs(p) THEN 0
    ELSE IF Len(p) >= 3 /\ p[2] = EMPTY /\ ~(Len(p) >= 4 /\ p[3] = EMPTY) THEN 2
    ELSE 1
Normed(n, comps) ==
    IF n = 0 THEN IF comps = << >> THEN <<DOT>> ELSE comps
    ELSE IF comps = << >> THEN [k \in 1..(n + 1) |-> EMPTY]
    ELSE [k \in 1..n |-> EMPTY] \o comps
normpath(p) ==
    IF p = NOPATH THEN <<DOT>>
    ELSE Normed(Slashes(p), NormComps(p, << >>, IsAbs(p)))

\* os.path.abspath
abspath(p) == normpath(IF IsAbs(p) THEN p ELSE join(Text(cwd), p))

----------------------------------------------------------------------------
(* The path lookup of the kernel *)

\* Walk resolves the names rest below the place cur: an empty name (a
\* repeated or trailing separator) demands a directory before it and makes a
\* link before it be followed, "." stays and ".." goes up,
\* symbolic links in every component but (unless follow) the last are
\* followed, a relative link from the directory that holds it.  It fails
\* with ENOENT below a missing component, ENOTDIR below one that is no
\* directory, and ELOOP (a plain OSError) after MaxLinks links.
MaxLinks == 8

Found(p)     == [ok |-> TRUE,  path |-> p, err |-> ""]
Lost(p, e)   == [ok |-> FALSE, path |-> p, err |-> e]

RECURSIVE Walk(_, _, _, _, _)
Walk(f, cur, rest, follow, fuel) ==
    IF rest = << >> THEN Found(cur)
    ELSE IF Head(rest) = EMPTY
         THEN IF KindAt(f, cur) \in {"file", "link"}
              THEN Lost(cur, "NotADirectoryError")
              ELSE Walk(f, cur, Tail(rest), follow, fuel)
    ELSE LET np == Append(cur, Head(rest))
             tl == Tail(rest)
         IN IF KindAt(f, cur) = "none" THEN Lost(cur, "FileNotFoundError")
            ELSE IF KindAt(f, cur) # "dir" THEN Lost(cur, "NotADirectoryError")
            ELSE IF Head(rest) = DOT THEN Walk(f, cur, tl, follow, fuel)
            ELSE IF Head(rest) = DOTDOT
                 THEN Walk(f, IF cur = << >> THEN cur ELSE Front(cur), tl,
                           follow, fuel)
            ELSE IF KindAt(f, np) = "link" /\ (tl # << >> \/ follow)
                 THEN IF fuel = 0 THEN Lost(np, "OSError")
                      ELSE Walk(f, IF IsAbs(f[np].link) THEN << >> ELSE cur,
                                f[np].link \o tl, follow, fuel - 1)
                 ELSE Walk(f, np, tl, follow, fuel)

\* where the lookup of a path starts
Start(p) == IF IsAbs(p) THEN << >> ELSE cwd

\* The lookup of os.lstat (follow FALSE) and os.stat (follow TRUE): the
\* empty path names nothing.
Lookup(f, p, follow) ==
    IF p = NOPATH THEN Lost(<< >>, "FileNotFoundError")
    ELSE Walk(f, Start(p), p, follow, MaxLinks)

LResolve(f, p) == Lookup(f, p, FALSE)
Resolve(f, p)  == Lookup(f, p, TRUE)

\* The lookup of the calls that act on a directory entry (unlink, mkdir,
\* symlink, rename, rmdir): the parent is resolved, the last component is
\* never followed; what a trailing separator means is up to the call, and
\* so is a last component that is no ordinary name (LastType).
Locate(f, p) ==
    IF p = NOPATH THEN Lost(<< >>, "FileNotFoundError")
    ELSE Walk(f, Start(p), Clean(p), FALSE, MaxLinks)
LastType(p) ==
    IF Clean(p) = << >> THEN "root"
    ELSE IF Last(Clean(p)) = DOT THEN "dot"
    ELSE IF Last(Clean(p)) = DOTDOT THEN "dotdot"
    ELSE "norm"

\* the exception of a call that needs the entry to exist
Missing(f, r) ==
    IF ~r.ok THEN r.err
    ELSE IF KindAt(f, r.path) = "none" THEN "FileNotFoundError"
    ELSE ""

\* os.lstat / os.stat succeed
lexists(f, p) == Missing(f, LResolve(f, p)) = ""
exists(f, p)  == Missing(f, Resolve(f, p)) = ""
isdir(f, p)   == LET r == Resolve(f, p)  IN r.ok /\ KindAt(f, r.path) = "dir"
islink(f, p)  == LET r == LResolve(f, p) IN r.ok /\ KindAt(f, r.path) = "link"
samefile(f, p, q) ==
    LET a == Resolve(f, p)
        b == Resolve(f, q)
    IN a.ok /\ b.ok /\ KindAt(f, a.path) # "none" /\ a.path = b.path

\* os.readlink of a path that is a link
readlink(f, p) == f[LResolve(f, p).path].link

\* posixpath.realpath (non-strict).  JoinRealPath is _joinrealpath: the
\* names of rest are taken one by one, "." and empty names passed over,
\* ".." splitting the path, a missing component kept as written; a link is
\* replaced by what its text resolves to, and a link met again while it is
\* being resolved (seen) is returned unresolved, joined with the rest.
\* The result is made absolute and normal.
RECURSIVE JoinRealPath(_, _, _, _), RealPathLoop(_, _, _, _)
Pardir(path) ==
    IF path = NOPATH THEN <<DOTDOT>>
    ELSE IF split(path).tail = DOTDOT
         THEN join(join(split(path).head, <<DOTDOT>>), <<DOTDOT>>)
    ELSE split(path).head
RealPathLoop(f, path, rest, seen) ==
    IF rest = NOPATH THEN [path |-> path, ok |-> TRUE]
    ELSE LET name    == Head(rest)
             tl      == IF Len(rest) = 1 THEN NOPATH ELSE Tail(rest)
             newpath == join(path, <<name>>)
         IN IF name = EMPTY \/ name = DOT THEN RealPathLoop(f, path, tl, seen)
            ELSE IF name = DOTDOT
                 THEN RealPathLoop(f, Pardir(path), tl, seen)
            ELSE IF ~islink(f, newpath)
                 THEN RealPathLoop(f, newpath, tl, seen)
            ELSE IF newpath \in seen
                 THEN [path |-> join(newpath, tl), ok |-> FALSE]
            ELSE LET r == JoinRealPath(f, path, readlink(f, newpath),
                                       seen \cup {newpath})
                 IN IF ~r.ok THEN [path |-> join(r.path, tl), ok |-> FALSE]
                    ELSE RealPathLoop(f, r.path, tl, seen)
JoinRealPath(f, path, rest, seen) ==
    IF IsAbs(rest) THEN RealPathLoop(f, ROOT, Tail(rest), seen)
    ELSE RealPathLoop(f, path, rest, seen)

realpath(f, p) == abspath(JoinRealPath(f, NOPATH, p, {}).path)

----------------------------------------------------------------------------
(* Filesystem mutations.  Each returns [err, fs, left]: err is "" on        *)
(* success and the name of the raised exception otherwise, in which case fs *)
(* is the filesystem as the failed call left it.  left is the set of the    *)
(* filesystems the call can leave: fs alone, except after a copytree cut    *)
(* short by RecursionError, where the order of os.scandir tells.            *)

Ok(f)       == [err |-> "", fs |-> f, left |-> {f}]
Fail(e, f)  == [err |-> e,  fs |-> f, left |-> {f}]

Without(f, p) == [q \in {q \in DOMAIN f : ~IsPrefix(p, q)} |-> f[q]]
With(f, p, n) == [q \in DOMAIN f \cup {p} |-> IF q = p THEN n ELSE f[q]]
\* the subtree at src re-rooted at dst
Moved(f, src, dst) ==
    LET keep == {q \in DOMAIN f : ~IsPrefix(src, q) /\ ~IsPrefix(dst, q)}
        sub  == {q \in DOMAIN f : IsPrefix(src, q)}
        new  == {dst \o SubSeq(q, Len(src) + 1, Len(q)) : q \in sub}
    IN [q \in keep \cup new |->
          IF q \in new THEN f[src \o SubSeq(q, Len(dst) + 1, Len(q))]
          ELSE f[q]]

\* os.remove / os.unlink
remove(f, p) ==
    LET r == Locate(f, p)
    IN IF ~r.ok THEN Fail(r.err, f)
       ELSE IF LastType(p) # "norm" THEN Fail("IsADirectoryError", f)
       ELSE IF KindAt(f, r.path) = "none" THEN Fail("FileNotFoundError", f)
       ELSE IF KindAt(f, r.path) = "dir" THEN Fail("IsADirectoryError", f)
       ELSE IF Slashed(p) THEN Fail("NotADirectoryError", f)
       ELSE Ok(Without(f, r.path))

HasChildren(f, p) == \E q \in DOMAIN f : IsPrefix(p, q) /\ q # p

\* os.rmdir
rmdir(f, p) ==
    LET r == Locate(f, p)
    IN IF ~r.ok THEN Fail(r.err, f)
       ELSE IF LastType(p) # "norm" THEN Fail("OSError", f)
       ELSE IF KindAt(f, r.path) = "none" THEN Fail("FileNotFoundError", f)
       ELSE IF KindAt(f, r.path) # "dir" THEN Fail("NotADirectoryError", f)
       ELSE IF HasChildren(f, r.path) THEN Fail("OSError", f)
       ELSE Ok(Without(f, r.path))

\* what lies strictly below the place p is taken away
Emptied(f, p) == [q \in {q \in DOMAIN f : ~IsPrefix(p, q) \/ q = p} |-> f[q]]

\* shutil.rmtree: lstat, open and fstat of path; what the open directory
\* holds is removed through its descriptor, then os.rmdir(path) looks the
\* path up again
rmtree(f, p) ==
    LET l == LResolve(f, p)
        o == Resolve(f, p)
    IN IF Missing(f, l) # "" THEN Fail(Missing(f, l), f)
       ELSE IF Missing(f, o) # "" THEN Fail(Missing(f, o), f)
       ELSE IF l.path # o.path THEN Fail("OSError", f)
       ELSE IF KindAt(f, o.path) # "dir" THEN Fail("NotADirectoryError", f)
       ELSE rmdir(Emptied(f, o.path), p)

\* os.symlink(source, link_name)
symlink(f, source, link_name) ==
    LET r == Locate(f, link_name)
    IN IF source = NOPATH THEN Fail("FileNotFoundError", f)
       ELSE IF ~r.ok THEN Fail(r.err, f)
       ELSE IF LastType(link_name) # "norm" THEN Fail("FileExistsError", f)
       ELSE IF KindAt(f, r.path) # "none" THEN Fail("FileExistsError", f)
       ELSE IF Slashed(link_name) THEN Fail("FileNotFoundError", f)
       ELSE Ok(With(f, r.path, LinkNode(source)))

\* os.rename(src, dst) within one filesystem
rename(f, src, dst) ==
    LET s == Locate(f, src)
        d == Locate(f, dst)
    IN IF ~s.ok THEN Fail(s.err, f)
       ELSE IF ~d.ok THEN Fail(d.err, f)
       ELSE IF LastType(src) # "norm" \/ LastType(dst) # "norm"
          THEN Fail("OSError", f)
       ELSE IF KindAt(f, s.path) = "none" THEN Fail("FileNotFoundError", f)
       ELSE IF KindAt(f, s.path) # "dir" /\ (Slashed(src) \/ Slashed(dst))
          THEN Fail("NotADirectoryError", f)
       ELSE IF s.path # d.path
               /\ (IsPrefix(s.path, d.path) \/ IsPrefix(d.path, s.path))
          THEN Fail("OSError", f)
       ELSE IF s.path = d.path THEN Ok(f)
       ELSE IF KindAt(f, s.path) = "dir"
          THEN IF KindAt(f, d.path) \in {"file", "link"}
               THEN Fail("NotADirectoryError", f)
               ELSE IF KindAt(f, d.path) = "dir" /\ HasChildren(f, d.path)
                    THEN Fail("OSError", f)
               ELSE Ok(Moved(f, s.path, d.path))
       ELSE IF KindAt(f, d.path) = "dir" THEN Fail("IsADirectoryError", f)
       ELSE Ok(Moved(f, s.path, d.path))

\* Sequencing of calls that may raise: K runs on the filesystem r left
\* unless r raised, and then the exception propagates.
Try(r, K(_)) == IF r.err # "" THEN r ELSE K(r.fs)

\* os.mkdir
mkdir(f, p) ==
    LET r == Locate(f, p)
    IN IF ~r.ok THEN Fail(r.err, f)
       ELSE IF LastType(p) # "norm" THEN Fail("FileExistsError", f)
       ELSE IF KindAt(f, r.path) # "none" THEN Fail("FileExistsError", f)
       ELSE Ok(With(f, r.path, DirNode))

\* os.makedirs(name, exist_ok): name is split, once more if it ends in a
\* separator; the missing head is made first, a FileExistsError of that
\* being passed over, and nothing more is made for a tail "."; then the
\* leaf, whose error is passed over if exist_ok and name is a directory
RECURSIVE makedirs(_, _, _)
MkSplit(p) == IF split(p).tail = EMPTY THEN split(split(p).head) ELSE split(p)
MkLeaf(h, m, p, exist_ok) ==
    IF m.err # "" /\ exist_ok /\ isdir(h, p) THEN Ok(h) ELSE m
MkHead(r) == IF r.err = "FileExistsError" THEN Ok(r.fs) ELSE r
makedirs(f, p, exist_ok) ==
    IF MkSplit(p).head # NOPATH /\ MkSplit(p).tail # EMPTY
       /\ ~exists(f, MkSplit(p).head)
    THEN Try(MkHead(makedirs(f, MkSplit(p).head, exist_ok)),
             LAMBDA h : IF MkSplit(p).tail = DOT THEN Ok(h)
                        ELSE MkLeaf(h, mkdir(h, p), p, exist_ok))
    ELSE MkLeaf(f, mkdir(f, p), p, exist_ok)

\* the exception of os.listdir / os.scandir, "" if it succeeds
ListErr(f, p) ==
    LET r == Resolve(f, p)
    IN IF Missing(f, r) # "" THEN Missing(f, r)
       ELSE IF KindAt(f, r.path) # "dir" THEN "NotADirectoryError"
       ELSE ""

\* os.listdir(path): the names directly under the directory
Children(f, dir) ==
    {Last(q) : q \in {q \in DOMAIN f : Len(q) = Len(dir) + 1 /\ IsPrefix(dir, q)}}
listdir(f, path) == Children(f, Resolve(f, path).path)

\* open(path, "wb"): the text the lookup ends on once the links of the last
\* component are followed; creating demands that it names an entry
RECURSIVE Opened(_, _, _)
Opened(f, p, fuel) ==
    IF p = NOPATH \/ Slashed(p) \/ LastType(p) # "norm" \/ fuel = 0 THEN p
    ELSE IF ~Locate(f, p).ok THEN p
    ELSE IF KindAt(f, Locate(f, p).path) # "link" THEN p
    ELSE Opened(f, join(Text(Front(Locate(f, p).path)), f[Locate(f, p).path].link),
                fuel - 1)

\* shutil.copyfile(src, dst): both are opened, src for reading first; the
\* IsADirectoryError of opening dst becomes FileNotFoundError if dst does
\* not exist
copyfile(f, src, dst) ==
    LET s == Resolve(f, src)
        d == Resolve(f, dst)
        t == Opened(f, dst, MaxLinks)
    IN IF samefile(f, src, dst) THEN Fail("SameFileError", f)
       ELSE IF Missing(f, s) # "" THEN Fail(Missing(f, s), f)
       ELSE IF KindAt(f, s.path) = "dir" THEN Fail("IsADirectoryError", f)
       ELSE IF t = NOPATH THEN Fail("FileNotFoundError", f)
       ELSE IF Slashed(t) \/ LastType(t) # "norm"
          THEN IF ~Locate(f, t).ok THEN Fail(Locate(f, t).err, f)
               ELSE IF exists(f, dst) THEN Fail("IsADirectoryError", f)
               ELSE Fail("FileNotFoundError", f)
       ELSE IF ~d.ok THEN Fail(d.err, f)
       ELSE IF KindAt(f, d.path) = "dir" THEN Fail("IsADirectoryError", f)
       ELSE Ok(With(f, d.path, f[s.path]))

\* shutil.copystat(src, dst): os.stat of src, then os.utime and os.chmod of
\* dst, each following links; nothing of the tree changes
copystat(f, src, dst) ==
    IF Missing(f, Resolve(f, src)) # "" THEN Fail(Missing(f, Resolve(f, src)), f)
    ELSE IF Missing(f, Resolve(f, dst)) # "" THEN Fail(Missing(f, Resolve(f, dst)), f)
    ELSE Ok(f)

\* shutil.copy2(src, dst): into dst if that is a directory; copyfile, then
\* copystat
copy2(f, src, dst) ==
    IF isdir(f, dst)
    THEN Try(copyfile(f, src, join(dst, <<pathbasename(src)>>)),
             LAMBDA g : copystat(g, src, join(dst, <<pathbasename(src)>>)))
    ELSE Try(copyfile(f, src, dst), LAMBDA g : copystat(g, src, dst))

\* one of the orders in which os.scandir can list the names S
RECURSIVE Listed(_)
Listed(S) ==
    IF S = {} THEN << >>
    ELSE <<CHOOSE x \in S : TRUE>> \o Listed(S \ {CHOOSE x \in S : TRUE})

\* shutil.copytree(src, dst, symlinks=True): src is listed, dst is made and
\* must not exist; then each entry is copied in the order of the listing, a
\* link as a link, a directory by copytree and a file by copy2, and at the
\* end copystat(src, dst).  An OSError of an entry or of the copystat is
\* collected and raised as Error at the end.  depth is the number of nested
\* calls the interpreter still allows: a copy into a directory of its own
\* source lists what it is writing and ends in RecursionError, which is not
\* collected.  The interpreter allows some 500 nested calls of copytree;
\* RecursionLimit stands for that number, so the tree such a copy leaves is
\* as deep as the bound and a tree deeper than the bound cannot be copied.
\*
\* os.scandir lists a directory in no particular order.  Every entry is
\* copied whatever happens to the others unless one ends in RecursionError,
\* so the order tells only in what is left by a copy that is cut short:
\* the entries listed before the one that recurses are copied, the ones
\* after it are not.  The result of such a copy carries in left the trees
\* of all the orders of all the listings, fs being one of them; LeftBy is
\* the loop over the entries still to copy, taken in every order, LeftAfter
\* the loop after an entry's copy returned r.
RecursionLimit == 4
RECURSIVE copytree(_, _, _, _), CopyEntries(_, _, _, _, _, _, _)
RECURSIVE LeftBy(_, _, _, _, _)
CopyEntry(g, srcname, dstname, depth) ==
    IF islink(g, srcname) THEN symlink(g, readlink(g, srcname), dstname)
    ELSE IF isdir(g, srcname) THEN copytree(g, srcname, dstname, depth - 1)
    ELSE copy2(g, srcname, dstname)
CopyNext(r, src, dst, entries, k, depth, failed) ==
    IF r.err = "RecursionError" THEN r
    ELSE CopyEntries(r.fs, src, dst, entries, k + 1, depth,
                     failed \/ r.err # "")
CopyEntries(g, src, dst, entries, k, depth, failed) ==
    IF k > Len(entries)
    THEN IF failed \/ copystat(g, src, dst).err # "" THEN Fail("Error", g)
         ELSE Ok(g)
    ELSE CopyNext(CopyEntry(g, join(src, <<entries[k]>>),
                            join(dst, <<entries[k]>>), depth),
                  src, dst, entries, k, depth, failed)
LeftAfter(r, src, dst, names, depth) ==
    IF r.err = "RecursionError" THEN r.left
    ELSE LeftBy(r.fs, src, dst, names, depth)
LeftBy(g, src, dst, names, depth) ==
    UNION { LeftAfter(CopyEntry(g, join(src, <<e>>), join(dst, <<e>>), depth),
                      src, dst, names \ {e}, depth) : e \in names }
Scanned(r, g, src, dst, names, depth) ==
    IF r.err # "RecursionError" THEN r
    ELSE [r EXCEPT !.left = LeftBy(g, src, dst, names, depth)]
copytree(f, src, dst, depth) ==
    IF depth = 0 THEN Fail("RecursionError", f)
    ELSE IF ListErr(f, src) # "" THEN Fail(ListErr(f, src), f)
    ELSE Try(makedirs(f, dst, FALSE),
             LAMBDA g : Scanned(CopyEntries(g, src, dst, Listed(listdir(f, src)),
                                            1, depth, FALSE),
                                g, src, dst, listdir(f, src), depth))

\* shutil._basename, a name
basename(p) == Last(Rstrip(p))

\* shutil._destinsrc: dst, made absolute and ended by a separator, starts
\* with src made so
WithSep(p) == IF Slashed(p) THEN p ELSE Append(p, EMPTY)
destinsrc(src, dst) ==
    IsPrefix(Front(WithSep(abspath(src))), Front(WithSep(abspath(dst))))

\* shutil.move(src, dst).  MoveFallback is its except OSError branch, MoveTo
\* the rename to real_dst with that fallback, MoveInto the case of dst an
\* existing directory.
MoveFallback(f, src, dst, real_dst) ==
    IF islink(f, src)
    THEN Try(symlink(f, readlink(f, src), real_dst), LAMBDA g : remove(g, src))
    ELSE IF isdir(f, src)
    THEN IF destinsrc(src, dst) THEN Fail("Error", f)
         ELSE Try(copytree(f, src, real_dst, RecursionLimit),
                  LAMBDA g : rmtree(g, src))
    ELSE Try(copy2(f, src, real_dst), LAMBDA g : remove(g, src))

OrElse(r, alt) == IF r.err = "" THEN r ELSE alt

MoveTo(f, src, dst, real_dst) ==
    OrElse(rename(f, src, real_dst), MoveFallback(f, src, dst, real_dst))

MoveInto(f, src, dst, real_dst) ==
    IF samefile(f, src, dst) THEN rename(f, src, dst)
    ELSE IF exists(f, real_dst) THEN Fail("Error", f)
    ELSE MoveTo(f, src, dst, real_dst)

move(f, src, dst) ==
    IF isdir(f, dst)
    THEN MoveInto(f, src, dst, join(dst, <<basename(src)>>))
    ELSE MoveTo(f, src, dst, dst)

----------------------------------------------------------------------------
(* dotfiles.core: module-level delete *)

delete(f, path) ==
    IF isdir(f, path) /\ ~islink(f, path) THEN rmtree(f, path)
    ELSE remove(f, path)

----------------------------------------------------------------------------
(* class Dotfile.  An object is [name, target, status]; status is "" for   *)
(* synced, "missing" or "unsynced".                                        *)

Modes == {"skip", "overwrite", "re-add"}

\* Mutants of Status: the existence test follows links (os.path.exists for
\* os.path.lexists); any symbolic link at name is taken as synced.
StatusFollowing(f, name, target) ==
    IF ~exists(f, name) THEN "missing"
    ELSE IF realpath(f, name) # target THEN "unsynced"
    ELSE ""
StatusLinkTrusted(f, name, target) ==
    IF ~lexists(f, name) THEN "missing"
    ELSE IF ~islink(f, name) THEN "unsynced"
    ELSE ""

\* The status computed by Dotfile.__init__ for the joined name and the
\* stripped target.
Status(f, name, target) ==
    IF ~lexists(f, name) THEN "missing"
    ELSE IF realpath(f, name) # target THEN "unsynced"
    ELSE ""

\* Dotfile.__init__(name, target, home)
Dotfile(f, name, target, home) ==
    [name   |-> join(home, name),
     target |-> Rstrip(target),
     status |-> Status(f, join(home, name), Rstrip(target))]

\* The result of a Dotfile method: the filesystem and the object's status
\* after the call, the exception raised ("" if none) and whether a
\* "Skipping" line was printed; left as in the results of the filesystem
\* calls.
Res(f, st, e, rep) ==
    [fs |-> f, status |-> st, err |-> e, report |-> rep, left |-> {f}]

\* a method ending without touching self.status (an exception, or remove)
Keep(r, d) == [Res(r.fs, d.status, r.err, FALSE) EXCEPT !.left = r.left]
\* self.status = '' as the last statement, reached unless r raised
Mark(r, d) ==
    [Res(r.fs, IF r.err = "" THEN "" ELSE d.status, r.err, FALSE)
        EXCEPT !.left = r.left]
\* the tail shared by sync and add, after the steps r:
\* symlink(self.target, self.name); self.status = ''
Link(r, d) == Mark(Try(r, LAMBDA g : symlink(g, d.target, d.name)), d)

\* Mutant of DotfileSync: skip is not honoured, an unsynced entry is
\* overwritten
DotfileSyncForced(f, d, handle_existing) ==
    IF handle_existing \notin Modes THEN Res(f, d.status, "ValueError", FALSE)
    ELSE IF d.status = "" THEN Res(f, d.status, "", FALSE)
    ELSE IF d.status = "unsynced"
    THEN IF handle_existing = "re-add"
         THEN Link(Try(delete(f, d.target),
                       LAMBDA g : move(g, d.name, d.target)), d)
         ELSE Link(delete(f, d.name), d)
    ELSE Link(Ok(f), d)

\* Dotfile.sync(handle_existing)
DotfileSync(f, d, handle_existing) ==
    IF handle_existing \notin Modes THEN Res(f, d.status, "ValueError", FALSE)
    ELSE IF d.status = "" THEN Res(f, d.status, "", FALSE)
    ELSE IF d.status = "unsynced"
    THEN IF handle_existing = "skip" THEN Res(f, d.status, "", TRUE)
         ELSE IF handle_existing = "re-add"
         THEN Link(Try(delete(f, d.target),
                       LAMBDA g : move(g, d.name, d.target)), d)
         ELSE Link(delete(f, d.name), d)
    ELSE Link(Ok(f), d)

\* Dotfile.add()
DotfileAdd(f, d) ==
    IF d.status = "missing" THEN Res(f, d.status, "", TRUE)
    ELSE IF d.status = "" THEN Res(f, d.status, "", TRUE)
    ELSE Link(move(f, d.name, d.target), d)

\* Mutant of DotfileRemove: only a missing Dotfile is refused
DotfileRemoveUnguarded(f, d) ==
    IF d.status = "missing" THEN Res(f, d.status, "", TRUE)
    ELSE Keep(Try(remove(f, d.name), LAMBDA g : move(g, d.target, d.name)), d)

\* Dotfile.remove(); its last statement compares and assigns nothing
DotfileRemove(f, d) ==
    IF d.status # "" THEN Res(f, d.status, "", TRUE)
    ELSE Keep(Try(remove(f, d.name), LAMBDA g : move(g, d.target, d.name)), d)

----------------------------------------------------------------------------
(* class Dotfiles *)

\* fnmatch.fnmatch on characters: "*" matches any run, "?" any character
RECURSIVE fnmatch(_, _)
fnmatch(n, pat) ==
    IF pat = << >> THEN n = << >>
    ELSE IF Head(pat) = "*"
         THEN fnmatch(n, Tail(pat)) \/ (n # << >> /\ fnmatch(Tail(n), pat))
    ELSE n # << >> /\ (Head(pat) = "?" \/ Head(pat) = Head(n))
         /\ fnmatch(Tail(n), Tail(pat))

\* Mutant of repofiles_to_symlink: the ignore patterns are not applied
repofiles_unfiltered(f, repo) == listdir(f, repo)

\* repofiles_to_symlink of _load: the listing less every ignored name
repofiles_to_symlink(f, repo) ==
    {e \in listdir(f, repo) :
        \A k \in 1..Len(ignore) : ~fnmatch(e, ignore[k])}

\* the orders in which a set can be iterated
Orders(S) == {o \in [1..Cardinality(S) -> S] :
                 \A a, b \in 1..Cardinality(S) : o[a] = o[b] => a = b}

TILDE == <<"~">>
\* os.path.expanduser with HOME = homedir and no user known by name: "~"
\* as the first name becomes the home directory less its trailing
\* separators, and an empty result the root
Expanded(p) == IF p = NOPATH THEN ROOT ELSE p
expanduser(p) ==
    IF Head(p) = TILDE THEN Expanded(Rstrip(homedir) \o Tail(p)) ELSE p

\* the home-side name _load gives a repository entry
LoadName(e) == <<".">> \o SubSeq(e, Len(prefix) + 1, Len(e))

\* Dotfiles._load(), the repository entries taken in the given order
Load(f, repo, ext, order) ==
    [k \in 1..Len(order) |->
        Dotfile(f, <<LoadName(order[k])>>, join(repo, <<order[k]>>), homedir)]
    \o
    [k \in 1..Len(ext) |->
        Dotfile(f, ext[k][1], expanduser(ext[k][2]), homedir)]

\* os.listdir(self.repository) of _load succeeds
CanLoad(f, repo) == ListErr(f, repo) = ""

\* Mutant of fqpn: the leading character of the basename is kept
fqpnKeepingDot(repo, dotfile) ==
    join(repo, <<prefix \o pathbasename(dotfile)>>)

\* a name less its first character: name[1:]
Rest(n) == IF n = << >> THEN n ELSE Tail(n)

\* Dotfiles._fqpn(dotfile)
fqpn(repo, dotfile) ==
    join(repo, <<prefix \o Rest(pathbasename(dotfile))>>)

\* os.path.basename(file).startswith('.')
IsDotName(file) == Last(file) # << >> /\ Head(Last(file)) = "."

Marked(ds, k, r) == [ds EXCEPT ![k].status = r.status]

\* Dotfiles.sync(handle_existing): the loop from position k on; SyncStep is
\* the loop after dotfile k's sync returned r.  The result is the
\* filesystem, the collection, the exception that ended the loop ("" if it
\* ran to the end), the number of dotfiles sync was invoked on and, in
\* left, the filesystems the sweep can leave.
RECURSIVE SyncLoop(_, _, _, _)
SyncStep(r, ds, k, handle_existing) ==
    IF r.err # ""
    THEN [fs |-> r.fs, dotfiles |-> Marked(ds, k, r), err |-> r.err,
          invoked |-> k, left |-> r.left]
    ELSE SyncLoop(r.fs, Marked(ds, k, r), k + 1, handle_existing)
SyncLoop(f, ds, k, handle_existing) ==
    IF k > Len(ds)
    THEN [fs |-> f, dotfiles |-> ds, err |-> "", invoked |-> k - 1,
          left |-> {f}]
    ELSE SyncStep(DotfileSync(f, ds[k], handle_existing), ds, k, handle_existing)

DotfilesSync(f, ds, handle_existing) == SyncLoop(f, ds, 1, handle_existing)

\* Dotfiles._perform_action(action, files): the loop over files from
\* position k on, before the final _load; an exception ends it.
Act(f, d, action) ==
    IF action = "add" THEN DotfileAdd(f, d) ELSE DotfileRemove(f, d)
ActOn(f, repo, action, file) ==
    IF IsDotName(file)
    THEN Act(f, Dotfile(f, file, fqpn(repo, file), homedir), action)
    ELSE Res(f, "", "", TRUE)
RECURSIVE ActionLoop(_, _, _, _, _)
ActionLoop(f, repo, action, files, k) ==
    IF k > Len(files) THEN Ok(f)
    ELSE Try(ActOn(f, repo, action, Rstrip(files[k])),
             LAMBDA g : ActionLoop(g, repo, action, files, k + 1))

\* old_statuses of move: a dict keyed by name, the last entry winning
OldStatus(ds, name) ==
    LET ks == {k \in 1..Len(ds) : ds[k].name = name}
    IN ds[CHOOSE k \in ks : \A j \in ks : j <= k].status
HasOldStatus(ds, name) == \E k \in 1..Len(ds) : ds[k].name = name

\* the resync loop of move from position k on; ResyncStep is the loop after
\* dotfile k's sync returned r
RECURSIVE ResyncLoop(_, _, _, _)
ResyncStep(r, old, ds, k) ==
    IF r.err # ""
    THEN [fs |-> r.fs, dotfiles |-> Marked(ds, k, r), err |-> r.err,
          left |-> r.left]
    ELSE ResyncLoop(r.fs, old, Marked(ds, k, r), k + 1)
ResyncLoop(f, old, ds, k) ==
    IF k > Len(ds) THEN [fs |-> f, dotfiles |-> ds, err |-> "", left |-> {f}]
    ELSE IF ~HasOldStatus(old, ds[k].name)
         THEN [fs |-> f, dotfiles |-> ds, err |-> "KeyError", left |-> {f}]
    ELSE IF OldStatus(old, ds[k].name) = "" /\ ds[k].status = "unsynced"
         THEN ResyncStep(DotfileSync(f, ds[k], "overwrite"), old, ds, k)
    ELSE ResyncLoop(f, old, ds, k + 1)

----------------------------------------------------------------------------
(* Initial states: a home directory /h, a repository /r and an outside     *)
(* directory /x, populated in every combination of the options below, and  *)
(* a Dotfiles object constructed over them.                                *)

HomeA == {"none", "file", "dir", "toA", "toF"}
RepoA == {"none", "file", "dir", "toF"}
\* /r/xa, an entry without the prefix, or /r/_, the prefix alone
RepoX == { <<"none", "none">>, <<"file", "none">>, <<"none", "file">> }
ExtF  == {"none", "file"}
\* /h/.b and /r/_b: a missing dotfile, or an unmanaged file
SlotB == { <<"none", "file">>, <<"file", "none">> }

Externals == { << >>, << << <<DA>>, <<EMPTY, X, F, EMPTY>> >> >> }

Entry(p, opt, c) ==
    CASE opt = "none" -> { }
      [] opt = "file" -> { <<p, FileNode(c)>> }
      [] opt = "dir"  -> { <<p, DirNode>>, <<Append(p, CH), FileNode(c)>> }
      [] opt = "toA"  -> { <<p, LinkNode(<<EMPTY, R, EA>>)>> }
      [] opt = "toF"  -> { <<p, LinkNode(<<EMPTY, X, F>>)>> }

MkFs(pairs) ==
    [p \in {e[1] : e \in pairs} |-> (CHOOSE e \in pairs : e[1] = p)[2]]

InitFs(ha, hb, ra, rb, rx, ru, xf) ==
    MkFs({ <<<<H>>, DirNode>>, <<<<R>>, DirNode>>, <<<<X>>, DirNode>> }
         \cup Entry(<<H, DA>>, ha, "u") \cup Entry(<<H, DB>>, hb, "u")
         \cup Entry(<<R, EA>>, ra, "v") \cup Entry(<<R, EB>>, rb, "v")
         \cup Entry(<<R, EX>>, rx, "v") \cup Entry(<<R, EU>>, ru, "v")
         \cup Entry(<<R, EI>>, "file", "v")
         \cup Entry(<<X, F>>, xf, "w"))

NoOp == [op |-> "init", mode |-> "", files |-> << >>, target |-> NOPATH,
         i |-> 0, err |-> "", invoked |-> 0,
         fs |-> << >>, dotfiles |-> << >>, repository |-> << >>]

Init ==
    /\ \E ha \in HomeA, ra \in RepoA, b \in SlotB, rx \in RepoX, xf \in ExtF :
          fs = InitFs(ha, b[1], ra, b[2], rx[1], rx[2], xf)
    /\ repository = <<EMPTY, R>>
    /\ externals \in Externals
    /\ \E order \in Orders(repofiles_to_symlink(fs, repository)) :
          dotfiles = Load(fs, repository, externals, order)
    /\ last = NoOp
    /\ steps = 0

----------------------------------------------------------------------------
(* Operations.  A call leaves one of the filesystems in the left of its     *)
(* result: the one in fs, unless a copytree was cut short by RecursionError *)
(* and the order in which os.scandir listed the directories tells.          *)

Did(op, mode, files, target, i, err, invoked) ==
    [op |-> op, mode |-> mode, files |-> files, target |-> target,
     i |-> i, err |-> err, invoked |-> invoked,
     fs |-> fs, dotfiles |-> dotfiles, repository |-> repository]

AnyMode == Modes \cup {"bogus"}
\* the batches of add and remove: names relative to the home directory, one
\* with a trailing separator, one through ".", one absolute, and batches
\* with a path that is no dotfile
FileArgs == { <<<<DA>>>>, <<<<DA, EMPTY>>>>, <<<<DOT, DB>>>>, <<<<EMPTY, H, DA>>>>,
              <<<<NA>>, <<DA>>>>, <<<<DA>>, <<DB>>>>, <<<<DB>>, <<NA>>, <<DA>>>> }
\* the targets of move: a new directory, written plainly, with a trailing
\* separator and with two leading ones below the repository; an existing
\* directory; and paths at and below a name of the home directory
MoveTargets == { <<EMPTY, T>>, <<EMPTY, T, EMPTY>>, <<EMPTY, EMPTY, R, T>>,
                 <<EMPTY, X>>, <<EMPTY, H, DA>>, <<EMPTY, H, DA, T>> }

\* Dotfile.sync(handle_existing) on the i-th object of the collection
SyncOneDone(r, i, mode) ==
    /\ fs' \in r.left
    /\ dotfiles' = Marked(dotfiles, i, r)
    /\ last' = Did("Dotfile.sync", mode, << >>, NOPATH, i, r.err, 1)
SyncOne(i, mode) ==
    /\ steps < MaxSteps
    /\ i \in 1..Len(dotfiles)
    /\ SyncOneDone(DotfileSync(fs, dotfiles[i], mode), i, mode)
    /\ steps' = steps + 1
    /\ UNCHANGED <<repository, externals>>

\* Dotfiles.sync(handle_existing)
SyncAllDone(r, mode) ==
    /\ fs' \in r.left
    /\ dotfiles' = r.dotfiles
    /\ last' = Did("sync", mode, << >>, NOPATH, 0, r.err, r.invoked)
SyncAll(mode) ==
    /\ steps < MaxSteps
    /\ SyncAllDone(DotfilesSync(fs, dotfiles, mode), mode)
    /\ steps' = steps + 1
    /\ UNCHANGED <<repository, externals>>

\* self._load() on the filesystem f: self.dotfiles is emptied, then filled
\* from the listing, which raises if the repository is no directory
Reload(f, repo, op, files, target) ==
    IF ~CanLoad(f, repo)
    THEN /\ dotfiles' = << >>
         /\ last' = Did(op, "", files, target, 0, ListErr(f, repo), 0)
    ELSE /\ \E order \in Orders(repofiles_to_symlink(f, repo)) :
               dotfiles' = Load(f, repo, externals, order)
         /\ last' = Did(op, "", files, target, 0, "", 0)

\* Dotfiles._perform_action(action, files), as called by add and remove
PerformDone(r, action, files) ==
    /\ fs' \in r.left
    /\ IF r.err # ""
       THEN /\ dotfiles' = dotfiles
            /\ last' = Did(action, "", files, NOPATH, 0, r.err, 0)
       ELSE Reload(r.fs, repository, action, files, NOPATH)
PerformAction(action, files) ==
    /\ steps < MaxSteps
    /\ PerformDone(ActionLoop(fs, repository, action, files, 1), action, files)
    /\ steps' = steps + 1
    /\ UNCHANGED <<repository, externals>>

Add(files)    == PerformAction("add", files)
Remove(files) == PerformAction("remove", files)

\* Dotfiles.move(target): Resynced is the end of the call after the resync
\* loop, Relocated the part after shutil.move returned mv
Resynced(rs, target) ==
    /\ fs' \in rs.left
    /\ dotfiles' = rs.dotfiles
    /\ last' = Did("move", "", << >>, target, 0, rs.err, 0)
Relocated(mv, target) ==
    IF mv.err # ""
    THEN /\ fs' \in mv.left
         /\ UNCHANGED <<repository, dotfiles>>
         /\ last' = Did("move", "", << >>, target, 0, mv.err, 0)
    ELSE /\ repository' = target
         /\ IF ~CanLoad(mv.fs, target)
            THEN /\ fs' = mv.fs
                 /\ dotfiles' = << >>
                 /\ last' = Did("move", "", << >>, target, 0,
                                ListErr(mv.fs, target), 0)
            ELSE \E order \in Orders(repofiles_to_symlink(mv.fs, target)) :
                    Resynced(ResyncLoop(mv.fs, dotfiles,
                                        Load(mv.fs, target, externals, order),
                                        1), target)
\* Mutant of Move: no test that target exists
MoveUnchecked(target) ==
    /\ steps < MaxSteps
    /\ Relocated(move(fs, repository, target), target)
    /\ steps' = steps + 1
    /\ UNCHANGED externals

Move(target) ==
    /\ steps < MaxSteps
    /\ IF exists(fs, target)
       THEN /\ UNCHANGED <<fs, repository, dotfiles>>
            /\ last' = Did("move", "", << >>, target, 0, "ValueError", 0)
       ELSE Relocated(move(fs, repository, target), target)
    /\ steps' = steps + 1
    /\ UNCHANGED externals

Next ==
    \/ \E i \in 1..Len(dotfiles), mode \in AnyMode : SyncOne(i, mode)
    \/ \E mode \in AnyMode : SyncAll(mode)
    \/ \E files \in FileArgs : Add(files)
    \/ \E files \in FileArgs : Remove(files)
    \/ \E target \in MoveTargets : Move(target)

Spec == Init /\ [][Next]_vars

----------------------------------------------------------------------------
(* Vocabulary of the properties *)

Range(q) == {q[k] : k \in 1..Len(q)}
AnyOrder(S) == CHOOSE o \in Orders(S) : TRUE

\* what lies at p and below it, as a set of <<relative path, node>>
Subtree(f, p) ==
    {<<SubSeq(q, Len(p) + 1, Len(q)), f[q]>> :
        q \in {q \in DOMAIN f : IsPrefix(p, q)}}

\* Every Dotfile that can be constructed over the current filesystem: the
\* ones _load builds and the transient ones of _perform_action.
Constructed ==
    Range(Load(fs, repository, externals,
               AnyOrder(repofiles_to_symlink(fs, repository))))
    \cup {Dotfile(fs, <<n>>, fqpn(repository, <<n>>), homedir) : n \in {DA, DB}}

\* the place a path text stands for when no name on the way is a link
Place(p) == Clean(normpath(p))

\* the pre-state object a Dotfile.sync call was made on
Callee == last.dotfiles[last.i]

----------------------------------------------------------------------------
(* C1.  Whenever name resolves to the same file as target (both exist and  *)
(* lead to the same node), the status computed by the constructor is       *)
(* synced.  Stated as claimed; it fails when target is a symbolic link.    *)
C1_SameFileIsSynced ==
    \A d \in Constructed : samefile(fs, d.name, d.target) => d.status = ""

(* C2.  The computed status is missing exactly when nothing exists at      *)
(* name: no file, no directory and no symbolic link, dangling or not.      *)
C2_MissingIffNothing ==
    \A d \in Constructed :
        d.status = "missing" <=> Place(d.name) \notin DOMAIN fs

\* one object with nothing at name and status missing, beside one whose
\* name is a dangling link and whose status is not missing
C2_Witness ==
    /\ \E d \in Constructed :
          Place(d.name) \notin DOMAIN fs /\ d.status = "missing"
    /\ \E d \in Constructed :
          /\ KindAt(fs, Place(d.name)) = "link"
          /\ ~exists(fs, d.name)
          /\ d.status # "missing"

\* name leads (through the kernel's lookup) to a place other than the one
\* target leads to
ResolvesElsewhere(f, d) ==
    LET a == Resolve(f, d.name)
        b == Resolve(f, d.target)
    IN a.ok /\ (~b.ok \/ a.path # b.path)

(* C3.  If something exists at name (file, directory or link) and it       *)
(* resolves to a path other than target, the computed status is unsynced.  *)
C3_ElsewhereIsUnsynced ==
    \A d \in Constructed :
        Place(d.name) \in DOMAIN fs /\ ResolvesElsewhere(fs, d)
            => d.status = "unsynced"

\* a link at name that leads to an existing entry other than target: unsynced
C3_Witness ==
    \E d \in Constructed :
        /\ KindAt(fs, Place(d.name)) = "link"
        /\ ResolvesElsewhere(fs, d)
        /\ exists(fs, d.name)
        /\ d.status = "unsynced"

(* C4.  Dotfile.sync is idempotent: after sync(m) was called on a Dotfile, *)
(* for m in skip, overwrite, re-add, a second sync(m) on the same object   *)
(* leaves the filesystem and the status as the first call left them; and a *)
(* call on a synced Dotfile mutates nothing.  Stated as claimed; it fails  *)
(* for the Dotfile _load builds from a repository entry named by the       *)
(* prefix alone, whose name is the home directory itself: each re-add      *)
(* replaces the repository copy by what the home directory then holds.     *)
C4_SyncIdempotent ==
    (last.op = "Dotfile.sync" /\ last.mode \in Modes) =>
        /\ DotfileSync(fs, dotfiles[last.i], last.mode).fs = fs
        /\ DotfileSync(fs, dotfiles[last.i], last.mode).status
              = dotfiles[last.i].status
        /\ Callee.status = "" => fs = last.fs

\* the entry at name is unmanaged: a regular file, a directory, or a link
\* whose text is not target; and nothing lies at target
Unmanaged(f, name, target) ==
    /\ Place(name) \in DOMAIN f
    /\ f[Place(name)].kind = "link" => f[Place(name)].link # target
    /\ ~lexists(f, target)

(* C5.  Round trip: after Dotfiles.add([f]) on a dot-named f that exists   *)
(* at name and is unmanaged, Dotfiles.remove([f]) restores the filesystem  *)
(* as it was before the add (name a plain entry again, nothing at the      *)
(* repository path).  Stated as claimed; it fails when the entry at name   *)
(* is a symbolic link.                                                     *)
C5_AddRemoveRoundTrip ==
    (/\ last.op = "add"
     /\ last.files = << <<DA>> >>
     /\ Unmanaged(last.fs, join(homedir, <<DA>>),
                  fqpn(last.repository, <<DA>>)))
    => ActionLoop(fs, repository, "remove", last.files, 1).fs = last.fs

(* C6.  Dotfiles.move(target) when something already exists at target      *)
(* raises an error and changes nothing: not the filesystem, not the stored *)
(* repository path, not the collection.                                    *)
C6_MoveToExistingAborts ==
    (last.op = "move" /\ lexists(last.fs, last.target)) =>
        /\ last.err # ""
        /\ fs = last.fs
        /\ repository = last.repository
        /\ dotfiles = last.dotfiles

\* a move onto an existing directory, refused
C6_Witness ==
    /\ last.op = "move"
    /\ isdir(last.fs, last.target)
    /\ last.err = "ValueError"

\* the target a repository-managed Dotfile has after the repository moved
Relocate(d) == join(repository, <<Last(d.target)>>)

(* C7.  After Dotfiles.move(target) to a non-existing target outside the   *)
(* home directory completes: every dotfile that was synced before is       *)
(* synced after (a repository dotfile by a link at name to its target      *)
(* under the new repository path), and every dotfile that was missing or   *)
(* unsynced before has the entry at name exactly as it was.  Stated as     *)
(* claimed; it fails when two dotfiles of the collection share a name.     *)
C7_MoveResyncsOnlySynced ==
    (/\ last.op = "move"
     /\ last.err = ""
     /\ ~IsPrefix(homedir, last.target))
    => \A d \in Range(last.dotfiles) :
          IF d.status = ""
          THEN IF IsPrefix(last.repository, d.target)
               THEN /\ Place(d.name) \in DOMAIN fs
                    /\ fs[Place(d.name)] = LinkNode(Relocate(d))
               ELSE Status(fs, d.name, d.target) = ""
          ELSE Subtree(fs, Place(d.name)) = Subtree(last.fs, Place(d.name))

(* C8.  Dotfile.sync('re-add') on an unsynced Dotfile, whether or not      *)
(* something exists at target: it completes, target then holds what was at *)
(* name, name is a symbolic link to target, and the status is synced.      *)
(* Stated as claimed; it fails when nothing exists at target.              *)
C8_ReAddReimports ==
    (/\ last.op = "Dotfile.sync"
     /\ last.mode = "re-add"
     /\ Callee.status = "unsynced")
    => /\ last.err = ""
       /\ Subtree(fs, Place(Callee.target))
             = Subtree(last.fs, Place(Callee.name))
       /\ Place(Callee.name) \in DOMAIN fs
       /\ fs[Place(Callee.name)] = LinkNode(Callee.target)
       /\ dotfiles[last.i].status = ""

\* the entries of the home directory
HomeEntries(f) == {p \in DOMAIN f : IsPrefix(Place(homedir), p)}

(* C9.  Dotfile.sync('skip') on an unsynced Dotfile returns normally and   *)
(* changes nothing: not the filesystem (name, target), not the status.     *)
(* And Dotfiles.sync('skip') never deletes or replaces an existing entry   *)
(* of the home directory.                                                  *)
C9_SkipMutatesNothing ==
    /\ (last.op = "Dotfile.sync" /\ last.mode = "skip"
            /\ Callee.status = "unsynced")
       => /\ last.err = ""
          /\ fs = last.fs
          /\ dotfiles[last.i].status = "unsynced"
    /\ (last.op = "sync" /\ last.mode = "skip")
       => \A p \in HomeEntries(last.fs) : p \in DOMAIN fs /\ fs[p] = last.fs[p]

\* a sweep in skip mode that met an unsynced dotfile and linked a missing one
C9_Witness ==
    /\ last.op = "sync"
    /\ last.mode = "skip"
    /\ \E d \in Range(last.dotfiles) :
          /\ d.status = "unsynced"
          /\ KindAt(last.fs, Place(d.name)) \in {"file", "dir"}
    /\ fs # last.fs

(* C10.  Dotfiles.sync(mode) is a best-effort sweep: sync is invoked on    *)
(* every dotfile of the collection, whatever an earlier one did (a skip or *)
(* a raised filesystem error).  Stated as claimed; it fails because an     *)
(* exception leaves the loop.                                              *)
C10_SweepReachesAll ==
    (last.op = "sync" /\ last.mode \in Modes) =>
        last.invoked = Len(last.dotfiles)

\* the transient Dotfile _perform_action builds for the single file of the
\* last add or remove
Transient == Dotfile(last.fs, Rstrip(last.files[1]),
                     fqpn(last.repository, Rstrip(last.files[1])), homedir)

(* C11.  The optimistic status update agrees with a reload: whenever       *)
(* Dotfile.sync or Dotfile.add completes after changing the filesystem and *)
(* sets the status to synced, the status computed afresh for the same name *)
(* and target over the resulting filesystem is synced as well, whatever    *)
(* kind of entry was at name.  Stated as claimed; it fails when the target *)
(* is, or becomes, a symbolic link.                                        *)
C11_OptimisticAgreesWithReload ==
    /\ (/\ last.op = "Dotfile.sync"
        /\ last.err = ""
        /\ fs # last.fs
        /\ dotfiles[last.i].status = "")
       => Status(fs, Callee.name, Callee.target) = ""
    /\ (/\ last.op = "add"
        /\ last.files = << <<DA>> >>
        /\ last.err = ""
        /\ fs # last.fs)
       => Status(fs, Transient.name, Transient.target) = ""

\* the collection a reload builds over the filesystem f
Reloaded(f) ==
    Load(f, repository, externals, AnyOrder(repofiles_to_symlink(f, repository)))

\* the filesystem after n further rounds of reload and Dotfiles.sync('overwrite')
MaxReruns == 3
RECURSIVE Rerun(_, _)
Rerun(f, n) ==
    IF n = 0 THEN f
    ELSE Rerun(DotfilesSync(f, Reloaded(f), "overwrite").fs, n - 1)

\* the links of the home directory that the last operation created
LinksCreated ==
    {p \in HomeEntries(fs) :
        fs[p].kind = "link" /\ (p \notin DOMAIN last.fs \/ last.fs[p] # fs[p])}

(* C12.  Convergence after partial failure: if a Dotfiles.sync('overwrite') *)
(* sweep stopped partway, then reloading and running the sweep again (some  *)
(* number of times) leaves every dotfile of the collection synced, with the *)
(* links the first run created left as they were.  Stated as claimed; it    *)
(* fails because the sweep only stops when two dotfiles share a name, and   *)
(* then each run replaces the link the run before made.                     *)
C12_RerunConverges ==
    (last.op = "sync" /\ last.mode = "overwrite" /\ last.err # "")
    => \E n \in 1..MaxReruns :
          /\ \A d \in Range(Reloaded(Rerun(fs, n))) : d.status = ""
          /\ \A p \in LinksCreated :
                p \in DOMAIN Rerun(fs, n) /\ Rerun(fs, n)[p] = fs[p]

\* the last operation was an add or remove of one dot-named file
SingleDot(op) ==
    last.op = op /\ Len(last.files) = 1 /\ IsDotName(Rstrip(last.files[1]))

(* C13.  An operation attempted in the wrong status is a no-op that never  *)
(* raises: Dotfile.add when the status is missing or synced, and           *)
(* Dotfile.remove when it is missing or unsynced, return normally and      *)
(* leave the filesystem and the status field unchanged; remove changes the *)
(* filesystem only when the status is synced.                              *)
C13_WrongStatusIsNoOp ==
    /\ (SingleDot("add") /\ Transient.status \in {"missing", ""})
       => /\ DotfileAdd(last.fs, Transient).err = ""
          /\ DotfileAdd(last.fs, Transient).fs = last.fs
          /\ DotfileAdd(last.fs, Transient).status = Transient.status
          /\ fs = last.fs
    /\ (SingleDot("remove") /\ Transient.status \in {"missing", "unsynced"})
       => /\ DotfileRemove(last.fs, Transient).err = ""
          /\ DotfileRemove(last.fs, Transient).fs = last.fs
          /\ DotfileRemove(last.fs, Transient).status = Transient.status
          /\ fs = last.fs
    /\ (SingleDot("remove") /\ fs # last.fs) => Transient.status = ""

\* a remove attempted on a regular file that is not yet managed while the
\* repository holds its copy
C13_Witness ==
    /\ SingleDot("remove")
    /\ Transient.status = "unsynced"
    /\ KindAt(last.fs, Place(Transient.name)) = "file"
    /\ KindAt(last.fs, Place(Transient.target)) = "file"
    /\ fs = last.fs

(* C14.  Dotfile.sync called with a handle_existing value outside skip,    *)
(* overwrite, re-add raises a configuration error for every status and     *)
(* changes neither the filesystem nor any status; and Dotfiles.sync with   *)
(* such a value ends in an error, whatever the collection contains.        *)
(* Stated as claimed; it fails for the empty collection, where no          *)
(* Dotfile.sync is called and the value is never looked at.                *)
C14_BadModeIsAnError ==
    /\ (last.op = "Dotfile.sync" /\ last.mode \notin Modes)
       => /\ last.err = "ValueError"
          /\ fs = last.fs
          /\ dotfiles = last.dotfiles
    /\ (last.op = "sync" /\ last.mode \notin Modes)
       => /\ last.err = "ValueError"
          /\ fs = last.fs
          /\ dotfiles = last.dotfiles

\* the collection is as _load left it: the object was just constructed, or
\* an add or remove batch ran to its final reload
JustLoaded == last.op \in {"init", "add", "remove"} /\ last.err = ""

Ignored(e) == \E k \in 1..Len(ignore) : fnmatch(e, ignore[k])

\* the positions of the collection holding a Dotfile with this target
WithTarget(t) == {k \in 1..Len(dotfiles) : dotfiles[k].target = t}

(* C15.  The collection produced by _load is exactly: one Dotfile for each *)
(* entry directly under the repository that matches no ignore pattern,     *)
(* with target repository/entry, plus one Dotfile for each externals       *)
(* entry, with the key as its name (under the home directory) and the      *)
(* mapped path (user-home shorthand expanded, trailing separators          *)
(* stripped) as its target, whatever the repository holds; an entry        *)
(* matching an ignore pattern yields no Dotfile.                           *)
C15_LoadIsExact ==
    JustLoaded =>
        /\ Len(dotfiles) = Cardinality({e \in listdir(fs, repository) : ~Ignored(e)})
                           + Len(externals)
        /\ \A e \in listdir(fs, repository) :
              Cardinality(WithTarget(join(repository, <<e>>)))
                 = IF Ignored(e) THEN 0 ELSE 1
        /\ \A j \in 1..Len(externals) :
              \E k \in 1..Len(dotfiles) :
                 /\ dotfiles[k].name = join(homedir, externals[j][1])
                 /\ dotfiles[k].target = Rstrip(expanduser(externals[j][2]))

\* a reload after an add that brought a new entry into a repository holding
\* an ignored entry, with an external configured
C15_Witness ==
    /\ JustLoaded
    /\ last.op = "add"
    /\ listdir(fs, repository) # listdir(last.fs, last.repository)
    /\ \E e \in listdir(fs, repository) : Ignored(e)
    /\ externals # << >>

\* the paths of a batch that name dotfiles, in their order
DotOnly(files) == SelectSeq(files, LAMBDA x : IsDotName(Rstrip(x)))
Rejected(files) == {k \in 1..Len(files) : ~IsDotName(Rstrip(files[k]))}

\* the collection is one a reload over the current filesystem builds
Fresh ==
    \E order \in Orders(repofiles_to_symlink(fs, repository)) :
        dotfiles = Load(fs, repository, externals, order)

(* C16.  In Dotfiles.add(files) and Dotfiles.remove(files) a path whose    *)
(* final component does not start with '.' is rejected for that item only: *)
(* it changes nothing and raises nothing, the other paths are processed in *)
(* their order exactly as if it were not in the list, and after the whole  *)
(* batch the collection has been reloaded, so that it is one built from    *)
(* the filesystem the batch left (empty if the repository cannot be        *)
(* listed).  Stated as claimed; it fails when another path of the batch    *)
(* raises: the exception leaves the loop, the reload is not reached and    *)
(* the collection is the one from before the batch.                        *)
C16_RejectsPerItem ==
    (last.op \in {"add", "remove"} /\ Rejected(last.files) # {})
    => /\ \A k \in Rejected(last.files) :
             ActOn(last.fs, last.repository, last.op, Rstrip(last.files[k]))
                = Res(last.fs, "", "", TRUE)
       /\ fs \in ActionLoop(last.fs, last.repository, last.op,
                            DotOnly(last.files), 1).left
       /\ IF CanLoad(fs, repository) THEN Fresh ELSE dotfiles = << >>

\* the entry at name is a symbolic link whose referent does not exist
Dangling(f, name) == KindAt(f, Place(name)) = "link" /\ ~exists(f, name)

(* C17.  A dangling symbolic link at name is always classified as          *)
(* unsynced, never missing and never synced, for every link value, also    *)
(* one whose text equals target while nothing exists at target.  Stated as *)
(* claimed; it fails for exactly that link, which is classified as synced. *)
C17_DanglingIsUnsynced ==
    \A d \in Constructed : Dangling(fs, d.name) => d.status = "unsynced"

\* the collections _load can build over the state the last operation began
\* in, one for each order of iteration
Loadings ==
    {Load(last.fs, last.repository, externals, order) :
        order \in Orders(repofiles_to_symlink(last.fs, last.repository))}

(* C18.  Dotfiles.sync(mode) is order-independent: whichever order the     *)
(* loaded collection is in, two dotfiles mapping to one home-side name     *)
(* included, the sweep ends with the same filesystem and the same outcome  *)
(* (success, or the same error).  Stated as claimed; it fails when two     *)
(* repository entries map to the same name.                                *)
C18_SweepOrderIndependent ==
    (last.op = "sync" /\ last.mode \in Modes /\ last.dotfiles \in Loadings)
    => \A ds \in Loadings :
          /\ DotfilesSync(last.fs, ds, last.mode).fs = fs
          /\ DotfilesSync(last.fs, ds, last.mode).err = last.err

\* file names of up to MaxNameLen characters
Alphabet == {".", "_", "x", "a"}
MaxNameLen == 3
NamesUpTo == UNION {[1..n -> Alphabet] : n \in 1..MaxNameLen}

\* dot-named files, and the names a repository entry can have: those drawn
\* from the alphabet and those the repository holds
DotNamed == {n \in NamesUpTo : IsDotName(<<n>>)}
Entries  == NamesUpTo \cup listdir(fs, repository)

\* f -> _fqpn -> the name _load derives from its basename
HomeOfRepo(f) == LoadName(pathbasename(fqpn(repository, <<f>>)))
\* e -> the name _load derives -> _fqpn
RepoOfHome(e) == fqpn(repository, <<LoadName(e)>>)

(* C19, as claimed.  Name mapping round trip: for every dot-named file f   *)
(* the name _load derives from the basename of _fqpn(f) is the basename of *)
(* f; and for every repository entry e, with or without the configured     *)
(* prefix, _fqpn of the name _load derives from e is repository/e.         *)
C19_RoundTripAnyEntry ==
    /\ \A f \in DotNamed : HomeOfRepo(f) = f
    /\ \A e \in Entries : RepoOfHome(e) = join(repository, <<e>>)

(* C19, amended.  For every dot-named file f the name _load derives from   *)
(* the basename of _fqpn(f) is the basename of f; and for every repository *)
(* entry e whose filename starts with the configured prefix, _fqpn of the  *)
(* name _load derives from e is repository/e, so that every Dotfile _load  *)
(* built from such an entry has the target _fqpn gives its name.           *)
C19_RoundTripPrefixed ==
    /\ \A f \in DotNamed : HomeOfRepo(f) = f
    /\ \A e \in Entries :
          IsPrefix(prefix, e) => RepoOfHome(e) = join(repository, <<e>>)
    /\ JustLoaded =>
          \A e \in listdir(fs, repository) :
             IsPrefix(prefix, e) =>
                \A k \in WithTarget(join(repository, <<e>>)) :
                   fqpn(repository, <<pathbasename(dotfiles[k].name)>>)
                      = dotfiles[k].target

\* an add took .a into the repository under the name _fqpn gave it, and the
\* reload built the Dotfile for .a from that entry
C19_Witness ==
    /\ last.op = "add"
    /\ last.err = ""
    /\ EA \notin listdir(last.fs, last.repository)
    /\ EA \in listdir(fs, repository)
    /\ \E k \in WithTarget(fqpn(repository, <<DA>>)) :
          dotfiles[k].name = join(homedir, <<DA>>)

\* the positions of the collection holding the repository-managed Dotfile
\* for the file of the last add or remove
ForFile ==
    {k \in 1..Len(dotfiles) :
        /\ dotfiles[k].name = Transient.name
        /\ dotfiles[k].target = Transient.target}

(* C20.  Collection consistency after batch operations: after              *)
(* Dotfiles.add([f]) moved an unmanaged dot-named f into the repository,   *)
(* the reloaded collection contains a Dotfile for f whose status is        *)
(* synced; after Dotfiles.remove([f]) succeeded on a synced                *)
(* repository-managed f, the reloaded collection contains no Dotfile for   *)
(* f, although Dotfile.remove leaves the status of its own object at       *)
(* synced.  Stated as claimed; it fails for an f that is a symbolic link.  *)
C20_ReloadAfterBatch ==
    /\ (/\ SingleDot("add")
        /\ Unmanaged(last.fs, Transient.name, Transient.target)
        /\ last.err = "")
       => \E k \in ForFile : dotfiles[k].status = ""
    /\ (/\ SingleDot("remove")
        /\ Transient.status = ""
        /\ last.err = "")
       => /\ ForFile = {}
          /\ DotfileRemove(last.fs, Transient).status = ""

====
